---- MODULE Spec2Model ----
(***************************************************************************)
(* chopper.py: the chopping pipeline (combine, partition by column,        *)
(* shuffle, fixed-size split, equal-count split, final rename) over a      *)
(* small file system.                                                      *)
(*                                                                         *)
(* A file name is a sequence of one-character strings, a path is a         *)
(* directory plus a name, a file's content is the sequence of its lines,   *)
(* and a line is a record (its fields) plus whether a line terminator      *)
(* follows it.  Only the last line of a file can lack its terminator.      *)
(***************************************************************************)
EXTENDS Integers, Sequences, FiniteSets, Bags, TLC

VARIABLES
    args,         \* the dictionary parse_args returns
    fs,           \* the files on disk: path -> content
    disk0,        \* the files on disk when the run started
    pc,           \* position of main()
    files,        \* main: files
    new_files,    \* main: new_files
    idx,          \* main: position of the running "for file in files" loop
    is_original,  \* config.is_original
    output_ext,   \* main: output_ext
    stage_in,     \* data rows of the file set handed to the running stage
    last,         \* the most recent call of a stage function, or rename
    sizes         \* chuffle.py: the list get_equal_sizes returned

vars == <<args, fs, disk0, pc, files, new_files, idx, is_original, output_ext,
          stage_in, last, sizes>>

(***************************************************************************)
(* Bounds of the model.                                                    *)
(***************************************************************************)
MaxRows == 3        \* data rows of a file handed to one stage function
MaxPipeRows == 2    \* data rows of a user file in a whole run
MaxShuffles == 2    \* --shuffles
MaxT == 3           \* --rows
MaxK == 3           \* --equal
MaxX == 12          \* chuffle.py: rows of the data frame
MaxN == 8           \* chuffle.py: --chunks

(***************************************************************************)
(* Sequences, strings, names.                                              *)
(***************************************************************************)
Last(s) == s[Len(s)]

Front(s) == SubSeq(s, 1, Len(s) - 1)

Range(s) == {s[i] : i \in 1..Len(s)}

Max(S) == CHOOSE x \in S : \A y \in S : y <= x

Digits == <<"0", "1", "2", "3", "4", "5", "6", "7", "8", "9">>

\* str(n) of a natural number, as the f-strings format it
RECURSIVE Str(_)
Str(n) == IF n < 10 THEN <<Digits[n + 1]>>
          ELSE Str(n \div 10) \o <<Digits[(n % 10) + 1]>>

\* the characters \w matches (ASCII)
WordChars ==
    {"a", "b", "c", "d", "e", "f", "g", "h", "i", "j", "k", "l", "m",
     "n", "o", "p", "q", "r", "s", "t", "u", "v", "w", "x", "y", "z",
     "A", "B", "C", "D", "E", "F", "G", "H", "I", "J", "K", "L", "M",
     "N", "O", "P", "Q", "R", "S", "T", "U", "V", "W", "X", "Y", "Z",
     "0", "1", "2", "3", "4", "5", "6", "7", "8", "9", "_"}

\* Path.suffix: from the last dot on, when that dot is neither the first nor
\* the last character of the name
Suffix(name) ==
    LET dots == {i \in 1..Len(name) : name[i] = "."}
        p == IF dots = {} THEN 0 ELSE Max(dots)
    IN IF p > 1 /\ p < Len(name) THEN SubSeq(name, p, Len(name)) ELSE <<>>

\* Path.stem: the name without its suffix
Stem(name) == SubSeq(name, 1, Len(name) - Len(Suffix(name)))

\* config.output_dir / name
OutPath(name) == [dir |-> "out", name |-> name]

\* the user's input directory / name
InPath(name) == [dir |-> "in", name |-> name]

\* the input directory itself
InDir == [dir |-> "in", name |-> <<>>]

(***************************************************************************)
(* Text files.                                                             *)
(***************************************************************************)
\* fout.write(line) on a file holding text: a line written behind a line
\* that has no terminator continues that line, field text running on
AppendLine(text, line) ==
    IF text # <<>> /\ ~Last(text).nl
    THEN LET open == Last(text).rec
         IN Append(Front(text),
                   [rec |-> Front(open) \o <<Last(open) \o Head(line.rec)>>
                               \o Tail(line.rec),
                    nl |-> line.nl])
    ELSE Append(text, line)

\* the lines written one after another
RECURSIVE WriteLines(_, _)
WriteLines(text, lines) ==
    IF lines = <<>> THEN text
    ELSE WriteLines(AppendLine(text, Head(lines)), Tail(lines))

\* the file system after open(p, "w"), the writes, close
WriteFile(disk, p, text) ==
    [q \in DOMAIN disk \cup {p} |-> IF q = p THEN text ELSE disk[q]]

\* files written in order; a later write to the same path replaces the file
RECURSIVE WriteAll(_, _)
WriteAll(disk, outs) ==
    IF outs = <<>> THEN disk
    ELSE WriteAll(WriteFile(disk, Head(outs).path, Head(outs).text), Tail(outs))

\* os.remove(p) of an existing file
Remove(disk, p) == [q \in DOMAIN disk \ {p} |-> disk[q]]

\* os.rename(a, b) of an existing file a: b is replaced when it exists
Rename(disk, a, b) ==
    IF a = b THEN disk ELSE WriteFile(Remove(disk, a), b, disk[a])

\* the outcome of a stage function that raised: what it had written stays
Raised(disk, outs) ==
    [ok |-> FALSE, fs |-> WriteAll(disk, outs), ret |-> <<>>, outs |-> outs,
     removed |-> {}]

\* the permutations random.shuffle can leave a list of n elements in
Perms(n) == {p \in [1..n -> 1..n] : \A i, j \in 1..n : p[i] = p[j] => i = j}

(***************************************************************************)
(* shuffle_file                                                            *)
(***************************************************************************)
S_shuffle == <<"_", "s", "h", "u", "f", "f", "l", "e">>

\* perms[i] is the order random.shuffle leaves data in at iteration i
shuffle_file(disk, filepath, shuffles, orig, perms) ==
    IF filepath \notin DOMAIN disk \/ disk[filepath] = <<>>
    THEN Raised(disk, <<>>)
    ELSE
      LET rows == disk[filepath]
          headers == rows[1]
          data == Tail(rows)
          new_outpath(i) == OutPath(Stem(filepath.name) \o S_shuffle \o Str(i))
          shuffled(i) == [j \in 1..Len(data) |-> data[perms[i][j]]]
          outs == [i \in 1..shuffles |->
                     [path |-> new_outpath(i),
                      text |-> WriteLines(<<>>, <<headers>> \o shuffled(i))]]
          fs1 == WriteAll(disk, outs)
          fs2 == IF ~orig THEN Remove(fs1, filepath) ELSE fs1
          fs3 == IF shuffles = 1
                 THEN Rename(fs2, new_outpath(shuffles), filepath)
                 ELSE fs2
      IN [ok |-> TRUE, fs |-> fs3,
          ret |-> [i \in 1..shuffles |-> new_outpath(i)],
          outs |-> outs,
          removed |-> IF ~orig THEN {filepath} ELSE {}]

(***************************************************************************)
(* clean_filename, split_by_columns                                        *)
(***************************************************************************)
\* a clean_filename that returns the string as it is
clean_filename_AsIs(string) == string

\* re.sub(r"\W", "_", string)
clean_filename(string) ==
    [i \in 1..Len(string) |-> IF string[i] \in WordChars THEN string[i] ELSE "_"]

S_None == <<"N", "o", "n", "e">>

\* "sep".join(parts)
RECURSIVE Join(_, _)
Join(sep, parts) ==
    IF parts = <<>> THEN <<>>
    ELSE IF Len(parts) = 1 THEN parts[1]
    ELSE parts[1] \o sep \o Join(sep, Tail(parts))

\* the position of a column in the header
ColumnIndex(fieldnames, col) == CHOOSE i \in 1..Len(fieldnames) : fieldnames[i] = col

\* row[col] of the dictionary DictReader makes of a record: a record shorter
\* than the header reads None in the missing columns
RowValue(fieldnames, row, col) ==
    LET i == ColumnIndex(fieldnames, col)
    IN IF i <= Len(row) THEN row[i] ELSE S_None

\* clean_filename("__".join([f"{col}_{row[col]}" for col in col_list]))
OutName(fieldnames, col_list, row) ==
    clean_filename(
        Join(<<"_", "_">>,
             [c \in 1..Len(col_list) |->
                 col_list[c] \o <<"_">> \o RowValue(fieldnames, row, col_list[c])]))

\* the record writer.writerow(row) writes: the header's columns in order,
\* an empty field where the dictionary holds None
WrittenRow(fieldnames, row) ==
    [j \in 1..Len(fieldnames) |-> IF j <= Len(row) THEN row[j] ELSE <<>>]

\* the loop over the reader's rows, from row i on.  st.outs holds the files
\* opened so far, in the order of the files dictionary, each with the text
\* written to it.  A column that the header lacks raises KeyError before
\* the file is opened; a record longer than the header raises ValueError in
\* writerow, after the file was opened and its header written.
RECURSIVE PartitionRows(_, _, _, _, _)
PartitionRows(rows, i, fieldnames, col_list, st) ==
    IF i > Len(rows) \/ ~st.ok THEN st
    ELSE IF \E c \in 1..Len(col_list) : col_list[c] \notin Range(fieldnames)
    THEN [st EXCEPT !.ok = FALSE]
    ELSE
      LET row == rows[i].rec
          out_path == OutPath(OutName(fieldnames, col_list, row))
          known == {j \in 1..Len(st.outs) : st.outs[j].path = out_path}
          outs1 == IF known = {}
                   THEN Append(st.outs,
                               [path |-> out_path,
                                text |-> <<[rec |-> fieldnames, nl |-> TRUE]>>])
                   ELSE st.outs
          j == CHOOSE n \in 1..Len(outs1) : outs1[n].path = out_path
          tooLong == Len(row) > Len(fieldnames)
          outs2 == IF tooLong THEN outs1
                   ELSE [outs1 EXCEPT
                           ![j].text = Append(@, [rec |-> WrittenRow(fieldnames, row),
                                                  nl |-> TRUE])]
      IN PartitionRows(rows, i + 1, fieldnames, col_list,
                       [outs |-> outs2, ok |-> ~tooLong])

split_by_columns(disk, filepath, col_list, orig) ==
    IF filepath \notin DOMAIN disk
    THEN Raised(disk, <<>>)
    ELSE
      LET rows == disk[filepath]
          st == IF rows = <<>> THEN [outs |-> <<>>, ok |-> TRUE]
                ELSE PartitionRows(rows, 2, rows[1].rec, col_list,
                                   [outs |-> <<>>, ok |-> TRUE])
          fs1 == WriteAll(disk, st.outs)
      IN IF ~st.ok THEN Raised(disk, st.outs)
         ELSE [ok |-> TRUE,
               fs |-> IF ~orig THEN Remove(fs1, filepath) ELSE fs1,
               ret |-> [n \in 1..Len(st.outs) |-> st.outs[n].path],
               outs |-> st.outs,
               removed |-> IF ~orig THEN {filepath} ELSE {}]

(***************************************************************************)
(* split_by_equal                                                          *)
(***************************************************************************)
\* a cycle that the header line has already advanced by one
CycleIndex_FromSecond(i, equal) == (i % equal) + 1

\* the position in fouts of the handle next(fout_cycle) gives for data row i
\* (i = 1 is the first line after the header)
CycleIndex(i, equal) == ((i - 1) % equal) + 1

\* the lines written to fouts[n]: the header, then its share of the rows
RECURSIVE EqualShare(_, _, _, _)
EqualShare(rows, i, n, equal) ==
    IF i > Len(rows) THEN <<>>
    ELSE IF i = 1 \/ CycleIndex(i - 1, equal) = n
    THEN <<rows[i]>> \o EqualShare(rows, i + 1, n, equal)
    ELSE EqualShare(rows, i + 1, n, equal)

split_by_equal(disk, filepath, equal, orig) ==
    IF filepath \notin DOMAIN disk
    THEN Raised(disk, <<>>)
    ELSE
      LET rows == disk[filepath]
          outs == [n \in 1..equal |->
                     [path |-> OutPath(Stem(filepath.name) \o <<"_">> \o Str(n)),
                      text |-> WriteLines(<<>>, EqualShare(rows, 1, n, equal))]]
          fs1 == WriteAll(disk, outs)
      IN [ok |-> TRUE,
          fs |-> IF ~orig THEN Remove(fs1, filepath) ELSE fs1,
          ret |-> [n \in 1..equal |-> outs[n].path],
          outs |-> outs,
          removed |-> IF ~orig THEN {filepath} ELSE {}]

(***************************************************************************)
(* split_by_rows                                                           *)
(***************************************************************************)
\* a threshold that lets one row too many into each file
StartsNewFile_OneMore(i, rows) == (i - 1) % (rows + 1) = 0

\* "Initialize new file": line i of the input (i = 0 is the header) opens a
\* new output file
StartsNewFile(i, rows) == (i - 1) % rows = 0

\* a tmp_file opened without writing the header
NewChunk_NoHeader(stem, filenum, headers) ==
    [path |-> OutPath(stem \o <<"_">> \o Str(filenum)), text |-> <<>>]

\* the file opened as tmp_file, number filenum, with the header written
NewChunk(stem, filenum, headers) ==
    [path |-> OutPath(stem \o <<"_">> \o Str(filenum)),
     text |-> AppendLine(<<>>, headers)]

\* the loop over the input's lines from line i on (0-based, as enumerate
\* counts them); outs holds the files opened so far and fout is the last one
RECURSIVE ChunkRows(_, _, _, _, _, _)
ChunkRows(lines, i, stem, rows, headers, outs) ==
    IF i >= Len(lines) THEN outs
    ELSE
      LET row == lines[i + 1]
          outs1 == IF StartsNewFile(i, rows)
                   THEN Append(outs, NewChunk(stem, Len(outs) + 1, headers))
                   ELSE outs
          outs2 == [outs1 EXCEPT ![Len(outs1)].text = AppendLine(@, row)]
      IN ChunkRows(lines, i + 1, stem, rows, headers, outs2)

split_by_rows(disk, filepath, rows, orig) ==
    IF filepath \notin DOMAIN disk
    THEN Raised(disk, <<>>)
    ELSE
      LET lines == disk[filepath]
          outs == IF lines = <<>> THEN <<>>
                  ELSE ChunkRows(lines, 1, Stem(filepath.name), rows, lines[1], <<>>)
          fs1 == WriteAll(disk, outs)
      IN [ok |-> TRUE,
          fs |-> IF ~orig THEN Remove(fs1, filepath) ELSE fs1,
          ret |-> [n \in 1..Len(outs) |-> outs[n].path],
          outs |-> outs,
          removed |-> IF ~orig THEN {filepath} ELSE {}]

(***************************************************************************)
(* combine_files                                                           *)
(***************************************************************************)
S_combined == <<"c", "o", "m", "b", "i", "n", "e", "d">>

\* the lines of in_files[i..] as written to the combined file: all lines of
\* the first file, the other files without their first line
RECURSIVE CombinedLines(_, _, _)
CombinedLines(disk, in_files, i) ==
    IF i > Len(in_files) THEN <<>>
    ELSE (IF i > 1 THEN Tail(disk[in_files[i]]) ELSE disk[in_files[i]])
         \o CombinedLines(disk, in_files, i + 1)

combine_files(disk, in_files) ==
    IF Len(in_files) = 1
    THEN [ok |-> TRUE, fs |-> disk, ret |-> in_files[1], outs |-> <<>>]
    ELSE
      LET combined_fp == OutPath(S_combined)
          text == WriteLines(<<>>, CombinedLines(disk, in_files, 1))
      IN [ok |-> TRUE, fs |-> WriteFile(disk, combined_fp, text),
          ret |-> combined_fp,
          outs |-> <<[path |-> combined_fp, text |-> text]>>]

(***************************************************************************)
(* Inputs of the model: the user's files and command lines.                *)
(***************************************************************************)
Header == <<<<"i", "d">>, <<"g">>, <<"k">>>>

S_csv == <<".", "c", "s", "v">>

\* names of the user's files
N_d == <<"d">> \o S_csv
N_dv == <<"d", ".", "v">> \o S_csv
N_a == <<"a">> \o S_csv
N_b == <<"b", ".", "t", "x", "t">>
N_missing == <<"n", "o">> \o S_csv

\* key values (columns g and k) of a row handed to split_by_columns
KeyPairs ==
    {<<<<"A">>, <<"z">>>>,
     <<<<"A", "_", "1">>, <<"z">>>>,
     <<<<"A", " ", "1">>, <<"z">>>>,
     <<<<"A", "_", "_", "k", "_">>, <<"B">>>>,
     <<<<"A">>, <<"_", "_", "k", "_", "B">>>>}

\* key values of a row of a user file in a whole run
PipeKeyPairs == {<<<<"A">>, <<"z">>>>, <<<<"A", "_", "1">>, <<"z">>>>}

\* a file of n data rows: the header, then rows with the ids and key values
\* given; the last line has its terminator iff nl
TextOf(ids, keys, nl) ==
    LET n == Len(ids)
    IN <<[rec |-> Header, nl |-> (n > 0 \/ nl)]>> \o
       [i \in 1..n |-> [rec |-> <<ids[i], keys[i][1], keys[i][2]>>,
                         nl |-> (i < n \/ nl)]]

\* the files of at most max rows whose key values come from pairs, row i
\* having the id first + i - 1
Texts(max, pairs, first) ==
    UNION {{TextOf([i \in 1..n |-> Str(first + i - 1)], keys, nl) :
               keys \in [1..n -> pairs], nl \in BOOLEAN} : n \in 0..max}

\* the files of at most max rows, all with the same key values, whose rows
\* are all different or all alike
PlainTexts(max) ==
    UNION {{TextOf([i \in 1..n |-> IF alike THEN Str(1) ELSE Str(i)],
                   [i \in 1..n |-> <<<<"A">>, <<"z">>>>], nl) :
               alike \in BOOLEAN, nl \in BOOLEAN} : n \in 0..max}

\* str.split(sep) of a string of characters
RECURSIVE Split(_, _)
Split(string, sep) ==
    LET at == {i \in 1..Len(string) : string[i] = sep}
    IN IF at = {} THEN <<string>>
       ELSE LET p == CHOOSE i \in at : \A j \in at : i <= j
            IN <<SubSeq(string, 1, p - 1)>>
               \o Split(SubSeq(string, p + 1, Len(string)), sep)

\* the multiset of data rows of a file's lines
RECURSIVE DataRows(_, _)
DataRows(text, i) ==
    IF i > Len(text) THEN EmptyBag
    ELSE SetToBag({text[i].rec}) (+) DataRows(text, i + 1)

\* the multiset of data rows of the files of a list that are on disk
RECURSIVE RowsOfFiles(_, _, _)
RowsOfFiles(disk, list, i) ==
    IF i > Len(list) THEN EmptyBag
    ELSE (IF list[i] \in DOMAIN disk THEN DataRows(disk[list[i]], 2) ELSE EmptyBag)
         (+) RowsOfFiles(disk, list, i + 1)

\* the multiset of data rows written to a list of output files
RECURSIVE RowsOfOuts(_, _)
RowsOfOuts(outs, i) ==
    IF i > Len(outs) THEN EmptyBag
    ELSE DataRows(outs[i].text, 2) (+) RowsOfOuts(outs, i + 1)

NoCall ==
    [op |-> "none", src |-> InDir, exists |-> FALSE, text |-> <<>>,
     orig |-> TRUE, n |-> 0, ok |-> TRUE, ret |-> <<>>, outs |-> <<>>,
     removed |-> {}, busy |-> {}, rows_in |-> EmptyBag]

\* the user's files: those on disk when the run starts
UserFiles == DOMAIN disk0

(***************************************************************************)
(* parse_args                                                              *)
(***************************************************************************)
ActionKeys == {"columns", "rows", "equal", "shuffles"}

\* Path.exists() of input_path
Exists(disk, p) == p = InDir \/ p \in DOMAIN disk

\* the command lines of the model
CommandLines(inputs, extensions, colss, prefixes) ==
    [input_path : inputs, extension : extensions, prefix : prefixes,
     shuffles : 0..MaxShuffles, columns : colss, rows : 0..MaxT, equal : 0..MaxK]

\* argparse refuses --rows together with --equal; parse_args refuses an
\* input path that does not exist and a dictionary with none of the action
\* keys
parse_args ==
    /\ pc = "parse"
    /\ pc' = IF \/ (args.rows # 0 /\ args.equal # 0)
                \/ ~Exists(fs, args.input_path)
                \/ DOMAIN args \cap ActionKeys = {}
             THEN "usage_error"
             ELSE "input"
    /\ UNCHANGED <<sizes, args, fs, disk0, files, new_files, idx, is_original,
                   output_ext, stage_in, last>>

(***************************************************************************)
(* main                                                                    *)
(***************************************************************************)
\* input_path.glob(f"**/*.{extension}"): the names the pattern matches
Matches(name, extension) ==
    IF extension = <<"*">>
    THEN \E i \in 1..Len(name) : name[i] = "."
    ELSE LET tail == <<".">> \o extension
         IN /\ Len(name) >= Len(tail)
            /\ SubSeq(name, Len(name) - Len(tail) + 1, Len(name)) = tail

Glob(disk, extension) ==
    {p \in DOMAIN disk : p.dir = "in" /\ Matches(p.name, extension)}

\* the orders a directory scan can list a set of paths in
Orders(S) ==
    {o \in [1..Cardinality(S) -> S] : \A i, j \in 1..Cardinality(S) : o[i] = o[j] => i = j}

\* main, lines 426-443: the first file set
ResolveInput ==
    /\ pc = "input"
    /\ IF args.input_path = InDir
       THEN \E in_files \in Orders(Glob(fs, args.extension)) :
              IF in_files = <<>>
              THEN /\ pc' = "crashed"
                   /\ UNCHANGED <<fs, files, is_original, output_ext, stage_in, last>>
              ELSE LET r == combine_files(fs, in_files)
                   IN /\ output_ext' = Suffix(in_files[1].name)
                      /\ fs' = r.fs
                      /\ files' = <<r.ret>>
                      /\ is_original' = FALSE
                      /\ stage_in' = RowsOfFiles(r.fs, <<r.ret>>, 1)
                      /\ last' = [NoCall EXCEPT !.op = "combine",
                                                !.ret = <<r.ret>>,
                                                !.outs = r.outs,
                                                !.rows_in = RowsOfFiles(fs, in_files, 1)]
                      /\ pc' = "columns"
       ELSE /\ output_ext' = Suffix(args.input_path.name)
            /\ files' = <<args.input_path>>
            /\ stage_in' = RowsOfFiles(fs, <<args.input_path>>, 1)
            /\ pc' = "columns"
            /\ UNCHANGED <<fs, is_original, last>>
    /\ UNCHANGED <<sizes, args, disk0, new_files, idx>>

Stages == {"columns", "shuffles", "rows", "equal"}

\* "if columns:", "if shuffles:", "if rows:", "if equal:"
StageOn(s) ==
    CASE s = "columns" -> args.columns # <<>>
      [] s = "shuffles" -> args.shuffles # 0
      [] s = "rows" -> args.rows # 0
      [] s = "equal" -> args.equal # 0

\* the order of the stages in main
NextStage(s) ==
    CASE s = "columns" -> "shuffles"
      [] s = "shuffles" -> "rows"
      [] s = "rows" -> "equal"
      [] s = "equal" -> "rename"

\* a stage whose flag is not set
SkipStage ==
    /\ pc \in Stages
    /\ ~StageOn(pc)
    /\ pc' = NextStage(pc)
    /\ UNCHANGED <<sizes, args, fs, disk0, files, new_files, idx, is_original,
                   output_ext, stage_in, last>>

\* one iteration of a stage's "for file in files" loop, given what the stage
\* function did with files[idx]
StageCall(op, n, r) ==
    /\ last' = [op |-> op, src |-> files[idx],
                exists |-> files[idx] \in DOMAIN fs,
                text |-> IF files[idx] \in DOMAIN fs THEN fs[files[idx]] ELSE <<>>,
                orig |-> is_original, n |-> n, ok |-> r.ok, ret |-> r.ret,
                outs |-> r.outs, removed |-> r.removed,
                busy |-> {files[i] : i \in (idx + 1)..Len(files)} \cup Range(new_files),
                rows_in |-> EmptyBag]
    /\ fs' = r.fs
    /\ IF r.ok
       THEN /\ new_files' = new_files \o r.ret
            /\ idx' = idx + 1
            /\ pc' = pc
       ELSE /\ pc' = "crashed"
            /\ UNCHANGED <<new_files, idx>>
    /\ UNCHANGED <<sizes, args, disk0, files, is_original, output_ext, stage_in>>

CallSplitByColumns ==
    /\ pc = "columns" /\ StageOn(pc) /\ idx <= Len(files)
    /\ StageCall("split_by_columns", Len(Split(args.columns, ",")),
                 split_by_columns(fs, files[idx], Split(args.columns, ","), is_original))

CallShuffleFile ==
    /\ pc = "shuffles" /\ StageOn(pc) /\ idx <= Len(files)
    /\ LET n == IF files[idx] \in DOMAIN fs /\ fs[files[idx]] # <<>>
                THEN Len(fs[files[idx]]) - 1 ELSE 0
       IN \E perms \in [1..args.shuffles -> Perms(n)] :
            StageCall("shuffle_file", args.shuffles,
                      shuffle_file(fs, files[idx], args.shuffles, is_original, perms))

CallSplitByRows ==
    /\ pc = "rows" /\ StageOn(pc) /\ idx <= Len(files)
    /\ StageCall("split_by_rows", args.rows,
                 split_by_rows(fs, files[idx], args.rows, is_original))

CallSplitByEqual ==
    /\ pc = "equal" /\ StageOn(pc) /\ idx <= Len(files)
    /\ StageCall("split_by_equal", args.equal,
                 split_by_equal(fs, files[idx], args.equal, is_original))

\* the end of a stage: "files = new_files; config.is_original = False"
EndStage ==
    /\ pc \in Stages /\ StageOn(pc) /\ idx > Len(files)
    /\ files' = new_files
    /\ new_files' = <<>>
    /\ idx' = 1
    /\ is_original' = FALSE
    /\ stage_in' = RowsOfFiles(fs, new_files, 1)
    /\ pc' = NextStage(pc)
    /\ UNCHANGED <<sizes, args, fs, disk0, output_ext, last>>

\* the path main renames a file of the last file set to
FinalPath(file) ==
    LET newfile == IF args.prefix # <<>>
                   THEN OutPath(args.prefix \o <<"_">> \o Stem(file.name))
                   ELSE file
    IN [dir |-> newfile.dir, name |-> newfile.name \o output_ext]

\* one iteration of the final loop: os.rename(file, f"{newfile}{output_ext}")
RenameFile ==
    /\ pc = "rename" /\ idx <= Len(files)
    /\ LET file == files[idx]
           there == file \in DOMAIN fs
       IN /\ last' = [NoCall EXCEPT
                        !.op = "rename", !.src = file, !.exists = there,
                        !.text = IF there THEN fs[file] ELSE <<>>,
                        !.orig = is_original, !.ok = there,
                        !.outs = IF there
                                 THEN <<[path |-> FinalPath(file), text |-> fs[file]]>>
                                 ELSE <<>>,
                        !.busy = {files[i] : i \in (idx + 1)..Len(files)}
                                 \cup {FinalPath(files[j]) : j \in 1..(idx - 1)}]
          /\ IF there
             THEN /\ fs' = Rename(fs, file, FinalPath(file))
                  /\ idx' = idx + 1
                  /\ pc' = pc
             ELSE /\ pc' = "crashed"
                  /\ UNCHANGED <<fs, idx>>
    /\ UNCHANGED <<sizes, args, disk0, files, new_files, is_original, output_ext, stage_in>>

\* main returns
Finish ==
    /\ pc = "rename" /\ idx > Len(files)
    /\ pc' = "done"
    /\ UNCHANGED <<sizes, args, fs, disk0, files, new_files, idx, is_original,
                   output_ext, stage_in, last>>

(***************************************************************************)
(* The run of the program on the user's files.                             *)
(***************************************************************************)
\* the user's disk: one input file, or an input directory of two files
Disks ==
    {(InPath(name) :> text) :
        name \in {N_d, N_dv}, text \in Texts(MaxPipeRows, PipeKeyPairs, 1)}
    \cup
    {(InPath(N_a) :> a) @@ (InPath(N_b) :> b) :
        a \in Texts(MaxPipeRows, PipeKeyPairs, 1),
        b \in {TextOf(<<Str(MaxPipeRows + 1)>>, <<<<<<"A">>, <<"z">>>>>>, nl) :
                  nl \in BOOLEAN}}

\* the input paths a user can name on a disk
InputsOn(disk) ==
    IF InPath(N_a) \in DOMAIN disk THEN {InDir} ELSE DOMAIN disk \cup {InPath(N_missing)}

\* --extension: the default when the input is a file; one that matches one
\* file, both files or no file of the input directory
ExtensionsOn(disk) ==
    IF InPath(N_a) \in DOMAIN disk
    THEN {<<"c", "s", "v">>, <<"*">>, <<"t", "s", "v">>}
    ELSE {<<"*">>}

Init ==
    /\ disk0 \in Disks
    /\ fs = disk0
    /\ args \in CommandLines(InputsOn(disk0), ExtensionsOn(disk0),
                            {<<>>, <<"g">>}, {<<>>, <<"p">>})
    /\ pc = "parse"
    /\ files = <<>>
    /\ new_files = <<>>
    /\ idx = 1
    /\ is_original = TRUE
    /\ output_ext = S_csv
    /\ stage_in = EmptyBag
    /\ last = NoCall
    /\ sizes = <<>>

Next ==
    \/ parse_args
    \/ ResolveInput
    \/ SkipStage
    \/ CallSplitByColumns
    \/ CallShuffleFile
    \/ CallSplitByRows
    \/ CallSplitByEqual
    \/ EndStage
    \/ RenameFile
    \/ Finish

Spec == Init /\ [][Next]_vars

(***************************************************************************)
(* One call of one stage function on one file.                             *)
(***************************************************************************)
\* the file handed to the function: the user's file, or a file a stage wrote
UnitSources ==
    {[path |-> InPath(N_d), orig |-> TRUE],
     [path |-> InPath(N_dv), orig |-> TRUE],
     [path |-> OutPath(S_combined), orig |-> FALSE]}

\* the flags of a run that reaches the stage
UnitCommandLines(stage, src) ==
    [input_path : {IF src.orig THEN src.path ELSE InDir}, extension : {<<"*">>}, prefix : {<<>>},
     shuffles : IF stage = "shuffles" THEN 1..MaxShuffles ELSE {0},
     columns : IF stage = "columns" THEN {<<"g">>, <<"g", ",", "k">>} ELSE {<<>>},
     rows : IF stage = "rows" THEN 1..MaxT ELSE {0},
     equal : IF stage = "equal" THEN 1..MaxK ELSE {0}]

InitUnit ==
    \E stage \in Stages, src \in UnitSources :
      /\ pc = stage
      /\ args \in UnitCommandLines(stage, src)
      /\ \E text \in (IF stage = "columns" THEN Texts(MaxRows, KeyPairs, 1)
                                            ELSE PlainTexts(MaxRows)) :
            /\ disk0 = (src.path :> text)
            /\ stage_in = DataRows(text, 2)
      /\ fs = disk0
      /\ files = <<src.path>>
      /\ new_files = <<>>
      /\ idx = 1
      /\ is_original = src.orig
      /\ output_ext = S_csv
      /\ last = NoCall
      /\ sizes = <<>>

NextUnit ==
    \/ CallSplitByColumns
    \/ CallShuffleFile
    \/ CallSplitByRows
    \/ CallSplitByEqual

SpecUnit == InitUnit /\ [][NextUnit]_vars

(***************************************************************************)
(* chuffle.py: get_equal_sizes                                             *)
(***************************************************************************)
\* the else branch: n sizes, the last x % n of them one larger
UnevenSizes(x, n) ==
    LET zp == n - (x % n)
        pp == x \div n
    IN [i \in 1..n |-> IF i - 1 >= zp THEN pp + 1 ELSE pp]

get_equal_sizes(x, n) ==
    IF x < n THEN <<x>>
    ELSE IF x % n = 0 THEN [i \in 1..n |-> x \div n]
    ELSE UnevenSizes(x, n)

\* shuffle_df: sizes = get_equal_sizes(len(df), chunks)
CallGetEqualSizes ==
    /\ pc = "get_equal_sizes"
    /\ sizes' = get_equal_sizes(args.x, args.n)
    /\ pc' = "returned"
    /\ UNCHANGED <<args, fs, disk0, files, new_files, idx, is_original,
                   output_ext, stage_in, last>>

\* a data frame of x rows and a chunk count n, about to be split
InitSizes ==
    /\ args \in [x : 0..MaxX, n : 1..MaxN]
    /\ pc = "get_equal_sizes"
    /\ sizes = <<>>
    /\ disk0 = << >>
    /\ fs = disk0
    /\ files = <<>>
    /\ new_files = <<>>
    /\ idx = 1
    /\ is_original = TRUE
    /\ output_ext = S_csv
    /\ stage_in = EmptyBag
    /\ last = NoCall

NextSizes == CallGetEqualSizes

SpecSizes == InitSizes /\ [][NextSizes]_vars

(***************************************************************************)
(* Properties.                                                             *)
(***************************************************************************)
StageOps == {"split_by_columns", "shuffle_file", "split_by_rows", "split_by_equal"}

\* the records of the data rows of a text, in order
DataRecs(text) == [i \in 1..(Len(text) - 1) |-> text[i + 1].rec]

NoAction ==
    args.columns = <<>> /\ args.rows = 0 /\ args.equal = 0 /\ args.shuffles = 0

\* C1: a stage deletes the file it consumed if and only if the pipeline
\* synthesized that file; no stage deletes a file of the user.
C1_UserFilesKept ==
    (last.op \in StageOps /\ last.ok) =>
        /\ (last.src \in last.removed) <=> (last.src \notin UserFiles)
        /\ last.removed \cap UserFiles = {}

\* C2: when a combine, column-partition, fixed-size-split or equal-count-split
\* stage has processed all its files, the multiset of data rows in the files
\* it returned equals the multiset of data rows in the files it was handed.
C2_RowsConserved ==
    /\ (pc \in {"columns", "rows", "equal"} /\ StageOn(pc) /\ idx > Len(files)) =>
           RowsOfFiles(fs, new_files, 1) = stage_in
    /\ (pc = "columns" /\ idx = 1 /\ last.op = "combine") =>
           RowsOfFiles(fs, files, 1) = last.rows_in

\* C3: every output file a stage function writes begins with the header
\* record of the file it was derived from, and holds that record nowhere else.
C3_HeaderOnce ==
    (last.op \in StageOps /\ last.ok) =>
        \A n \in 1..Len(last.outs) :
            LET text == last.outs[n].text
            IN /\ text # <<>>
               /\ text[1].rec = last.text[1].rec
               /\ \A i \in 2..Len(text) : text[i].rec # last.text[1].rec

C3_Witness ==
    /\ last.op = "split_by_rows" /\ last.ok
    /\ Len(last.text) = 4
    /\ Len(last.outs) = 2
    /\ \A n \in 1..2 : last.outs[n].text[1].rec = Header

\* C4: the file a stage or the final rename is about to open exists on disk,
\* and so does every file of the file set a stage is handed.
C4_PathsExist ==
    (pc \in Stages \cup {"rename"} /\ (pc = "rename" \/ StageOn(pc))) =>
        /\ idx <= Len(files) => files[idx] \in DOMAIN fs
        /\ idx = 1 => \A i \in 1..Len(files) : files[i] \in DOMAIN fs

\* C5: shuffle_file with count N writes N files, and the multiset of data
\* rows of each equals the multiset of data rows of the source.
C5_ShufflePermutes ==
    (last.op = "shuffle_file" /\ last.ok) =>
        /\ Len(last.outs) = last.n
        /\ \A n \in 1..Len(last.outs) :
               DataRows(last.outs[n].text, 2) = DataRows(last.text, 2)

\* the key columns of the call, and a data row's value in a key column
KeyColumns == Split(args.columns, ",")

KeyValue(i, c) ==
    last.text[i].rec[CHOOSE h \in 1..Len(Header) : Header[h] = KeyColumns[c]]

\* two strings that are equal once every character other than a letter, a
\* digit or an underscore counts as an underscore
SameCleaned(a, b) ==
    /\ Len(a) = Len(b)
    /\ \A x \in 1..Len(a) :
          \/ a[x] = b[x]
          \/ {a[x], b[x]} \cap (WordChars \ {"_"}) = {}

\* the key of data row i: "col_value" of each key column, joined by "__"
JoinedKey(i) ==
    Join(<<"_", "_">>,
         [c \in 1..Len(KeyColumns) |-> KeyColumns[c] \o <<"_">> \o KeyValue(i, c)])

\* the output files that hold data row i of the source
Lands(i) ==
    {n \in 1..Len(last.outs) :
        \E x \in 2..Len(last.outs[n].text) :
            last.outs[n].text[x].rec = last.text[i].rec}

SameRawKeys(i, j) == \A c \in 1..Len(KeyColumns) : KeyValue(i, c) = KeyValue(j, c)

C7_FixedSizeChunks ==
    (last.op = "split_by_rows" /\ last.ok) =>
        LET T == last.n
            R == Len(last.text) - 1
            count == (R + T - 1) \div T
            rowsOf(n) == DataRecs(last.outs[n].text)
        IN /\ Len(last.outs) = count
           /\ Len(last.ret) = count
           /\ \A n \in 1..count :
                 /\ last.ret[n] = last.outs[n].path
                 /\ Len(rowsOf(n)) = IF n < count THEN T
                                     ELSE IF R % T = 0 THEN T ELSE R % T
                 /\ \A x \in 1..Len(rowsOf(n)) :
                       rowsOf(n)[x] = last.text[1 + (n - 1) * T + x].rec

C7_Witness ==
    /\ last.op = "split_by_rows" /\ last.ok
    /\ last.n = 2 /\ Len(last.text) = 4 /\ Len(last.outs) = 2

\* C8: split_by_equal with count K on R data rows writes K files; data row i
\* (counted from 0) is in file i mod K, so each file holds floor(R / K) or
\* ceil(R / K) rows, R in total, and only the header when it gets no row.
C8_RoundRobin ==
    (last.op = "split_by_equal" /\ last.ok) =>
        LET K == last.n
            R == Len(last.text) - 1
            rowsOf(n) == DataRecs(last.outs[n].text)
            share(n) == Cardinality({i \in 0..(R - 1) : i % K = n - 1})
        IN /\ Len(last.outs) = K
           /\ Len(last.ret) = K
           /\ \A n \in 1..K :
                 /\ last.ret[n] = last.outs[n].path
                 /\ Len(rowsOf(n)) = share(n)
                 /\ Len(rowsOf(n)) \in {R \div K, (R + K - 1) \div K}
                 /\ \A x \in 1..Len(rowsOf(n)) :
                       rowsOf(n)[x] = last.text[1 + (n + (x - 1) * K)].rec
           /\ RowsOfOuts(last.outs, 1) = DataRows(last.text, 2)

C8_Witness ==
    /\ last.op = "split_by_equal" /\ last.ok
    /\ last.n = 2 /\ Len(last.text) = 4
    /\ Len(last.outs[1].text) = 3 /\ Len(last.outs[2].text) = 2

\* C9: a run with no action flag ends in the usage error, and the files on
\* disk stay as they were.
C9_NoActionIsError ==
    NoAction => (pc \in {"parse", "usage_error"} /\ fs = disk0)

\* C10: no stage call and no final rename writes a path that holds a file
\* still waiting in the current file set or one written for another file.
C10_NoCollision ==
    \A n \in 1..Len(last.outs) : last.outs[n].path \notin last.busy

\* the sum of a list of numbers
RECURSIVE Sum(_)
Sum(list) == IF list = <<>> THEN 0 ELSE Head(list) + Sum(Tail(list))

\* C11: every size get_equal_sizes(x, n) returns is floor(x / n) or
\* ceil(x / n), and the sizes sum to x, for x < n as well.
C11_EqualSizes ==
    pc = "returned" =>
        /\ \A i \in 1..Len(sizes) :
               sizes[i] \in {args.x \div args.n, (args.x + args.n - 1) \div args.n}
        /\ Sum(sizes) = args.x

====
